---- MODULE Spec2Model ----
(***************************************************************************)
(* Model of the Smart Notifications Slack app (slackoptimizer).            *)
(*                                                                         *)
(* Nine specifications over the shared variables, one per part of the      *)
(* program that is modelled:                                               *)
(*   SpecPolicy    the delivery decision of SlackEventController           *)
(*                 (shouldSendDM, isInQuietHours) on drawn inputs;         *)
(*   SpecRetry     BaseService.withRetry as a loop of attempts;            *)
(*   SpecPipeline  one channel/direct message through                      *)
(*                 SlackEventController.handleAllMessages, with the        *)
(*                 classifier call going through withRetry;                *)
(*   SpecNotify    SlackEventController.handleNotification on drawn user   *)
(*                 and result arguments;                                   *)
(*   SpecStore     the in-memory user map of AIBackendService under        *)
(*                 concurrent updateUserSettings calls;                    *)
(*   SpecSettings  the same map used by one caller, call after call, with  *)
(*                 identifiers and partial objects of any shape;           *)
(*   SpecClassify  classifyMessageWithAI and getCleanedResponse;           *)
(*   SpecMessage   AIBackendService.classifyMessage: category, priority    *)
(*                 and confidence of the result, on drawn requests;        *)
(*   SpecView      ViewStateManager under any sequence of its methods.     *)
(***************************************************************************)
EXTENDS Integers, Sequences, FiniteSets, TLC

VARIABLES
    \* ---- delivery policy (SlackEventController.shouldSendDM) ----
    p_user,        \* the `user` argument: a record with optional settings
    p_result,      \* the classification result: category and priority
    p_delivery,    \* the delivery preferences argument
    p_now,         \* what new Date() reads: minutes since local midnight
    p_decided,     \* shouldSendDM has been called on these inputs
    p_quiet,       \* the value isInQuietHours returned
    p_dm,          \* the value shouldSendDM returned
    \* ---- BaseService.withRetry ----
    r_pc,          \* "idle" | "running" | "returned" | "raised"
    r_maxRetries,  \* the maxRetries argument
    r_delay,       \* the delay argument (ms)
    r_attempt,     \* the loop variable `attempt`
    r_calls,       \* how many times operation() has been invoked
    r_waits,       \* the sequence of delays slept so far (ms)
    r_lastError,   \* the variable lastError
    r_value,       \* the value returned, or the error thrown
    r_outcomes,    \* history: how each invocation of operation() ended
    \* ---- message pipeline (SlackEventController) ----
    m_pc,          \* position of the handler for the message in flight
    m_msg,         \* the incoming Slack message
    m_user,        \* slackUser as returned by getSlackUser
    m_backendUser, \* "none" | "found" | "null": what backendAPI.getUser returned
    m_result,      \* the classification result, once obtained
    m_classifiedBy,\* "none" | "remote": who produced m_result
    m_exhausted,   \* the classifier call threw after its last attempt
    m_feed,        \* "none", or how the feed POST ended: "ok" | "rejected" | "failed"
    m_dmDecision,  \* "none" | "send" | "skip": what shouldSendDM returned
    m_dm,          \* "none" | "sent" | "failed"
    m_record,      \* the analytics record posted, or NoRecord
    m_caughtBy,    \* "none", or the handler whose catch block took an exception
    \* ---- AIBackendService user store ----
    users,         \* Map<string, BackendUser>: key -> object reference
    heap,          \* object reference -> settings of that BackendUser
    u_pc,          \* per call of updateUserSettings: its position
    u_args,        \* per call: the (slackUserId, teamId, settings) arguments
    u_ref,         \* per call: the `user` reference getUser resolved to
    u_ret,         \* per call: the settings returned
    u_hist,        \* per call: which calls were suspended when it started,
                   \* and whether its getUser created the user
    s_last,        \* the last call of a caller that awaits each call before
                   \* making the next: its name, arguments and return value
    \* ---- classifyMessageWithAI (AIBackendService.ts) ----
    a_pc,          \* "idle" | "fetching" | "loop" | "cleaning" | "done"
    a_key,         \* process.env.GMI_API_KEY is set
    a_request,     \* the AINotificationRequest: message content, userDescription
    a_primary,     \* how the fetch of the classifier completion ended
    a_response,    \* the variable ai_response
    a_i,           \* the loop variable i
    a_cleanups,    \* how many cleanup requests have been issued
    a_answers,     \* history: the values ai_response has held
    a_result,      \* the boolean returned
    a_by,          \* "none" | "remote" | "default" | "rules_unconfigured" | "rules_error"
    \* ---- AIBackendService.classifyMessage ----
    cm_pc,         \* "idle" | "called" | "done"
    cm_request,    \* the ClassificationRequest: message text, user settings
    cm_key,        \* process.env.GMI_API_KEY was set during the call
    cm_notify,     \* what classifyMessageWithAI returned
    cm_result,     \* the ClassificationResult returned
    \* ---- ViewStateManager (utils/viewState.ts) ----
    v_states,      \* Map<string, ViewState>: user id -> entry, or no entry
    v_last         \* the last method called, its arguments, and what
                   \* getState returned for its user id before the call

policyVars == <<p_user, p_result, p_delivery, p_now, p_decided, p_quiet, p_dm>>
retryVars == <<r_pc, r_maxRetries, r_delay, r_attempt, r_calls, r_waits,
               r_lastError, r_value, r_outcomes>>
pipeVars == <<m_pc, m_msg, m_user, m_backendUser, m_result, m_classifiedBy, m_exhausted,
              m_feed, m_dmDecision, m_dm, m_record, m_caughtBy>>
storeVars == <<users, heap, u_pc, u_args, u_ref, u_ret, u_hist, s_last>>
classifyVars == <<a_pc, a_key, a_request, a_primary, a_response, a_i,
                  a_cleanups, a_answers, a_result, a_by>>
messageVars == <<cm_pc, cm_request, cm_key, cm_notify, cm_result>>
viewVars == <<v_states, v_last>>
vars == <<policyVars, retryVars, pipeVars, storeVars, classifyVars,
          messageVars, viewVars>>

(***************************************************************************)
(* Values.                                                                 *)
(***************************************************************************)

\* The categories the code switches on, and two of the others it passes
\* through (ClassificationResult.category in types/backend.ts).
Categories == {"urgent", "important", "mention", "spam", "general"}
Priorities == {"high", "medium", "low"}
Results == [category : Categories, priority : Priorities]

DeliveryPrefs == [urgent_via_dm : BOOLEAN, important_via_dm : BOOLEAN,
                  mentions_via_dm : BOOLEAN, feed_enabled : BOOLEAN]

getDefaultDeliveryPreferences ==
    [urgent_via_dm |-> TRUE, important_via_dm |-> TRUE,
     mentions_via_dm |-> FALSE, feed_enabled |-> TRUE]

\* A time-of-day string is the sequence of its characters; <<>> is a missing
\* (undefined or empty) value.
NoTime == <<>>
T2200 == <<"2", "2", ":", "0", "0">>
T0800 == <<"0", "8", ":", "0", "0">>
T0900 == <<"0", "9", ":", "0", "0">>
T1700 == <<"1", "7", ":", "0", "0">>
T1730 == <<"1", "7", ":", "3", "0">>
TimeStrings == {NoTime, T2200, T0800, T0900, T1700, T1730}

\* Minutes since midnight at which the clock is sampled.
ClockSamples == {0, 3 * 60, 8 * 60, 9 * 60, 12 * 60, 17 * 60, 17 * 60 + 30,
                 20 * 60, 22 * 60, 23 * 60 + 59}

\* user.settings?.quiet_hours: absent settings, absent quiet_hours, or a record.
NoQuietHours == [enabled |-> FALSE, start_time |-> NoTime, end_time |-> NoTime]
QuietHours == [enabled : BOOLEAN, start_time : TimeStrings, end_time : TimeStrings]
PolicyUsers ==
    {[has_settings |-> FALSE, has_quiet_hours |-> FALSE, quiet_hours |-> NoQuietHours],
     [has_settings |-> TRUE, has_quiet_hours |-> FALSE, quiet_hours |-> NoQuietHours]}
    \cup {[has_settings |-> TRUE, has_quiet_hours |-> TRUE, quiet_hours |-> q] :
            q \in QuietHours}

(***************************************************************************)
(* isInQuietHours: parsing of "HH:MM" and the window test.                 *)
(***************************************************************************)

NaN == -1

DigitValue(c) ==
    CASE c = "0" -> 0 [] c = "1" -> 1 [] c = "2" -> 2 [] c = "3" -> 3
      [] c = "4" -> 4 [] c = "5" -> 5 [] c = "6" -> 6 [] c = "7" -> 7
      [] c = "8" -> 8 [] c = "9" -> 9 [] OTHER -> NaN

\* Number(s) for a string of decimal digits; Number("") is 0.
RECURSIVE ToNumber(_)
ToNumber(s) ==
    IF s = <<>> THEN 0
    ELSE LET init == ToNumber(SubSeq(s, 1, Len(s) - 1))
             d == DigitValue(s[Len(s)])
         IN IF init = NaN \/ d = NaN THEN NaN ELSE init * 10 + d

\* s.split(':'): the parts of s between colons.
RECURSIVE SplitColon(_)
SplitColon(s) ==
    IF \A i \in 1..Len(s) : s[i] # ":" THEN <<s>>
    ELSE LET i == CHOOSE j \in 1..Len(s) :
                    s[j] = ":" /\ \A k \in 1..(j - 1) : s[k] # ":"
         IN <<SubSeq(s, 1, i - 1)>> \o SplitColon(SubSeq(s, i + 1, Len(s)))

\* The time parsed without the default for a missing value.
SetHoursNoDefault(t, dflt) ==
    LET parts == SplitColon(t)
        h == ToNumber(parts[1])
        m == IF Len(parts) >= 2 THEN ToNumber(parts[2]) ELSE NaN
    IN IF h = NaN \/ m = NaN THEN NaN ELSE h * 60 + m

\* const [h, m] = (t || dflt).split(':').map(Number); d.setHours(h, m, 0):
\* the minutes since midnight of the resulting Date, NaN for an invalid Date.
SetHours(t, dflt) ==
    LET parts == SplitColon(IF t = NoTime THEN dflt ELSE t)
        h == ToNumber(parts[1])
        m == IF Len(parts) >= 2 THEN ToNumber(parts[2]) ELSE NaN
    IN IF h = NaN \/ m = NaN THEN NaN ELSE h * 60 + m

\* Relational comparison of Dates; any comparison with an invalid Date is false.
DateGeq(a, b) == a # NaN /\ b # NaN /\ a >= b
DateLt(a, b) == a # NaN /\ b # NaN /\ a < b

\* The window test with the two comparisons joined by && instead of ||.
QuietWindowTestConjoined(now, start, end) == DateGeq(now, start) /\ DateLt(now, end)

\* return now >= start || now < end
QuietWindowTest(now, start, end) == DateGeq(now, start) \/ DateLt(now, end)

\* isInQuietHours without its early return for urgent messages.
UrgentBypassDropped(result) == FALSE

\* if (result.category === 'urgent') return false
UrgentBypass(result) == result.category = "urgent"

isInQuietHours(user, result, now) ==
    IF ~(user.has_settings /\ user.has_quiet_hours /\ user.quiet_hours.enabled)
    THEN FALSE
    ELSE IF UrgentBypass(result) THEN FALSE
    ELSE QuietWindowTest(now,
                         SetHours(user.quiet_hours.start_time, T2200),
                         SetHours(user.quiet_hours.end_time, T0800))

DMByCategory(result, delivery) ==
    CASE result.category = "urgent" -> delivery.urgent_via_dm
      [] result.category = "important" -> delivery.important_via_dm
      [] result.category = "mention" -> delivery.mentions_via_dm
      [] OTHER -> result.priority = "high" /\ delivery.urgent_via_dm

shouldSendDM(result, delivery, user, now) ==
    IF isInQuietHours(user, result, now) THEN FALSE
    ELSE DMByCategory(result, delivery)

(***************************************************************************)
(* SpecPolicy: the decision applied to drawn inputs.                       *)
(***************************************************************************)

PolicyIdle ==
    /\ p_user = [has_settings |-> FALSE, has_quiet_hours |-> FALSE,
                 quiet_hours |-> NoQuietHours]
    /\ p_result = [category |-> "general", priority |-> "low"]
    /\ p_delivery = getDefaultDeliveryPreferences
    /\ p_now = 0
    /\ p_decided = FALSE
    /\ p_quiet = FALSE
    /\ p_dm = FALSE

PolicyInit ==
    /\ p_user \in PolicyUsers
    /\ p_result \in Results
    /\ p_delivery \in {d \in DeliveryPrefs : d.feed_enabled}
    /\ p_now \in ClockSamples
    /\ p_decided = FALSE
    /\ p_quiet = FALSE
    /\ p_dm = FALSE

ResolveDM ==
    /\ ~p_decided
    /\ p_decided' = TRUE
    /\ p_quiet' = isInQuietHours(p_user, p_result, p_now)
    /\ p_dm' = shouldSendDM(p_result, p_delivery, p_user, p_now)
    /\ UNCHANGED <<p_user, p_result, p_delivery, p_now>>
    /\ UNCHANGED <<retryVars, pipeVars, storeVars, classifyVars, messageVars, viewVars>>

(***************************************************************************)
(* BaseService.withRetry.                                                  *)
(***************************************************************************)

DefaultMaxRetries == 3
DefaultDelay == 1000
MaxRetriesBound == 4

\* What an attempt can throw. axios rejects with a transport error or, after
\* its 30 s timeout, a timeout error; the operation itself throws the Error
\* built from a response with success = false ("app_failure") or from a body
\* that is not a response envelope at all ("protocol").
RejectKinds == {"transport", "timeout"}
ErrorKinds == RejectKinds \cup {"app_failure", "protocol"}
InitialError == [kind |-> "Operation failed", at |-> 0]
NoValue == [kind |-> "none", at |-> 0]

\* The exhaustion test off by one: gives up one attempt early.
RetryExhaustedEarly(attempt, maxRetries) == attempt + 1 >= maxRetries

\* attempt === maxRetries, tested in the catch block.
RetryExhausted(attempt, maxRetries) == attempt = maxRetries

\* The wait without the attempt number as a factor.
BackoffDelayConstant(delay, attempt) == delay

\* delay * attempt, the argument of this.delay.
BackoffDelay(delay, attempt) == delay * attempt

RetryIdle ==
    /\ r_pc = "idle"
    /\ r_maxRetries = DefaultMaxRetries
    /\ r_delay = DefaultDelay
    /\ r_attempt = 1
    /\ r_calls = 0
    /\ r_waits = <<>>
    /\ r_lastError = InitialError
    /\ r_value = NoValue
    /\ r_outcomes = <<>>

\* The call withRetry(operation, maxRetries, delay) up to the loop header.
WithRetryCall(maxRetries, delay) ==
    /\ r_pc' = "running"
    /\ r_maxRetries' = maxRetries
    /\ r_delay' = delay
    /\ r_attempt' = 1
    /\ r_calls' = 0
    /\ r_waits' = <<>>
    /\ r_lastError' = InitialError
    /\ r_value' = NoValue
    /\ r_outcomes' = <<>>

\* The loop condition fails: throw lastError after the loop.
RetryLoopExit ==
    /\ r_pc = "running"
    /\ ~(r_attempt <= r_maxRetries)
    /\ r_pc' = "raised"
    /\ r_value' = r_lastError
    /\ UNCHANGED <<r_maxRetries, r_delay, r_attempt, r_calls, r_waits,
                   r_lastError, r_outcomes>>

\* A success that sleeps before it returns.
RetryAttemptSucceedsThenSleeps(v) ==
    /\ r_pc = "running"
    /\ r_attempt <= r_maxRetries
    /\ r_calls' = r_calls + 1
    /\ r_pc' = "returned"
    /\ r_value' = v
    /\ r_waits' = Append(r_waits, BackoffDelay(r_delay, r_attempt))
    /\ UNCHANGED <<r_maxRetries, r_delay, r_attempt, r_lastError>>

\* operation() resolves with v: return it.
RetryAttemptSucceeds(v) ==
    /\ r_pc = "running"
    /\ r_attempt <= r_maxRetries
    /\ r_calls' = r_calls + 1
    /\ r_pc' = "returned"
    /\ r_value' = v
    /\ UNCHANGED <<r_maxRetries, r_delay, r_attempt, r_waits, r_lastError>>

\* operation() rejects with an error of kind k: rethrow on the last attempt,
\* otherwise sleep delay * attempt and go round the loop.
RetryAttemptFails(k) ==
    /\ r_pc = "running"
    /\ r_attempt <= r_maxRetries
    /\ r_calls' = r_calls + 1
    /\ r_lastError' = [kind |-> k, at |-> r_calls + 1]
    /\ IF RetryExhausted(r_attempt, r_maxRetries)
       THEN /\ r_pc' = "raised"
            /\ r_value' = r_lastError'
            /\ UNCHANGED <<r_attempt, r_waits>>
       ELSE /\ r_waits' = Append(r_waits, BackoffDelay(r_delay, r_attempt))
            /\ r_attempt' = r_attempt + 1
            /\ UNCHANGED <<r_pc, r_value>>
    /\ UNCHANGED <<r_maxRetries, r_delay>>

RetryValues == {[kind |-> "ok", at |-> 0], [kind |-> "ok", at |-> 1]}
RetryDelays == {0, 250, DefaultDelay}

\* The body of an HTTP response as the operation receives it from this.post
\* (BackendAPIResponse<T>). parsed: the body is a response envelope; success:
\* its `success` field is truthy; has_data: it carries `data`. A body that is
\* not an envelope (text, an empty object) has no truthy `success`.
Bodies(D, none) ==
    {[parsed |-> FALSE, success |-> FALSE, has_data |-> FALSE, data |-> none],
     [parsed |-> TRUE, success |-> FALSE, has_data |-> FALSE, data |-> none],
     [parsed |-> TRUE, success |-> TRUE, has_data |-> FALSE, data |-> none]}
    \cup {[parsed |-> TRUE, success |-> TRUE, has_data |-> TRUE, data |-> d] :
             d \in D}

\* The operation handing back a response with success = false as its value.
OperationThrowsNever(body) == FALSE

\* if (!response.success) throw new Error(response.error?.message || '...')
OperationThrows(body) == ~body.success

\* Which error that throw stands for.
ThrownKind(body) == IF body.parsed THEN "app_failure" ELSE "protocol"

\* How an invocation that received `body` is entered in r_outcomes.
OutcomeOf(body) ==
    IF ~body.parsed THEN "protocol"
    ELSE IF ~body.success THEN "app_failure"
    ELSE IF body.has_data THEN "ok" ELSE "no_data"

\* operation() rejects inside this.post, before any body is looked at.
RetryOperationRejects(k) ==
    /\ RetryAttemptFails(k)
    /\ r_outcomes' = Append(r_outcomes, k)

\* operation() receives a body: it throws on a falsy `success`, and returns
\* response.data otherwise.
RetryOperationAnswers(body) ==
    /\ IF OperationThrows(body)
       THEN RetryAttemptFails(ThrownKind(body))
       ELSE RetryAttemptSucceeds(body.data)
    /\ r_outcomes' = Append(r_outcomes, OutcomeOf(body))

(***************************************************************************)
(* SlackEventController: one message through handleAllMessages.            *)
(***************************************************************************)

Messages == [bot : BOOLEAN, has_user : BOOLEAN, is_dm : BOOLEAN]

\* The data of a classifier response with success = true.
ClassifierData == [should_notify : BOOLEAN, category : Categories,
                   priority : Priorities]
NoResult == [should_notify |-> FALSE, category |-> "none", priority |-> "none"]

NoRecord == [posted |-> "none", sent_dm |-> FALSE, stored_in_feed |-> FALSE,
             category |-> "none", priority |-> "none"]

\* BaseController.getSlackUser: {id, name, email, team_id, timezone}; the
\* object carries no `settings`.
getSlackUser ==
    [has_settings |-> FALSE, has_quiet_hours |-> FALSE,
     quiet_hours |-> NoQuietHours, has_delivery |-> FALSE,
     delivery_preferences |-> getDefaultDeliveryPreferences]

\* (user.settings || {}).delivery_preferences || getDefaultDeliveryPreferences()
DeliveryOf(user) ==
    IF user.has_settings /\ user.has_delivery
    THEN user.delivery_preferences
    ELSE getDefaultDeliveryPreferences

PipelineIdle ==
    /\ m_pc = "idle"
    /\ m_msg = [bot |-> FALSE, has_user |-> TRUE, is_dm |-> FALSE]
    /\ m_user = getSlackUser
    /\ m_backendUser = "none"
    /\ m_result = NoResult
    /\ m_classifiedBy = "none"
    /\ m_exhausted = FALSE
    /\ m_feed = "none"
    /\ m_dmDecision = "none"
    /\ m_dm = "none"
    /\ m_record = NoRecord
    /\ m_caughtBy = "none"

\* Bolt delivers a message event to handleAllMessages.
Receive(msg) ==
    /\ m_pc \in {"idle", "done"}
    /\ m_pc' = "received"
    /\ m_msg' = msg
    /\ m_user' = getSlackUser
    /\ m_backendUser' = "none"
    /\ m_result' = NoResult
    /\ m_classifiedBy' = "none"
    /\ m_exhausted' = FALSE
    /\ m_feed' = "none"
    /\ m_dmDecision' = "none"
    /\ m_dm' = "none"
    /\ m_record' = NoRecord
    /\ m_caughtBy' = "none"
    /\ r_pc' = "idle"
    /\ r_maxRetries' = DefaultMaxRetries
    /\ r_delay' = DefaultDelay
    /\ r_attempt' = 1
    /\ r_calls' = 0
    /\ r_waits' = <<>>
    /\ r_lastError' = InitialError
    /\ r_value' = NoValue
    /\ r_outcomes' = <<>>
    /\ UNCHANGED <<policyVars, storeVars, classifyVars, messageVars, viewVars>>

\* handleAllMessages up to the dispatch on isDirectMessage.
HandleAllMessages ==
    /\ m_pc = "received"
    /\ m_pc' = IF m_msg.bot \/ ~m_msg.has_user THEN "done"
               ELSE IF m_msg.is_dm THEN "direct" ELSE "channel"
    /\ UNCHANGED <<m_backendUser, m_msg, m_user, m_result, m_classifiedBy, m_exhausted,
                   m_feed, m_dmDecision, m_dm, m_record, m_caughtBy>>
    /\ UNCHANGED <<retryVars, policyVars, storeVars, classifyVars, messageVars, viewVars>>

\* handleDirectMessage: look the user up and post the help text.
HandleDirectMessage(userFound, postOk) ==
    /\ m_pc = "direct"
    /\ m_pc' = "done"
    /\ m_caughtBy' = IF userFound /\ ~postOk THEN "handleDirectMessage" ELSE "none"
    /\ UNCHANGED <<m_backendUser, m_msg, m_user, m_result, m_classifiedBy, m_exhausted,
                   m_feed, m_dmDecision, m_dm, m_record>>
    /\ UNCHANGED <<retryVars, policyVars, storeVars, classifyVars, messageVars, viewVars>>

\* handleChannelMessage: getSlackUser and getChannelInfo; either may be null.
LookupUserAndChannel(userFound, channelFound) ==
    /\ m_pc = "channel"
    /\ m_pc' = IF userFound /\ channelFound THEN "ensure" ELSE "done"
    /\ m_user' = getSlackUser
    /\ UNCHANGED <<m_backendUser, m_msg, m_result, m_classifiedBy, m_exhausted,
                   m_feed, m_dmDecision, m_dm, m_record, m_caughtBy>>
    /\ UNCHANGED <<retryVars, policyVars, storeVars, classifyVars, messageVars, viewVars>>

\* ensureUserExists: every failure is logged and swallowed.
EnsureUserExists ==
    /\ m_pc = "ensure"
    /\ m_pc' = "health"
    /\ UNCHANGED <<m_backendUser, m_msg, m_user, m_result, m_classifiedBy, m_exhausted,
                   m_feed, m_dmDecision, m_dm, m_record, m_caughtBy>>
    /\ UNCHANGED <<retryVars, policyVars, storeVars, classifyVars, messageVars, viewVars>>

\* isBackendHealthy; an unhealthy backend skips the message.
CheckBackendHealth(healthy) ==
    /\ m_pc = "health"
    /\ m_pc' = IF healthy THEN "getuser" ELSE "done"
    /\ UNCHANGED <<m_backendUser, m_msg, m_user, m_result, m_classifiedBy, m_exhausted,
                   m_feed, m_dmDecision, m_dm, m_record, m_caughtBy>>
    /\ UNCHANGED <<retryVars, policyVars, storeVars, classifyVars, messageVars, viewVars>>

\* backendAPI.getUser; null skips the message, otherwise the request is built
\* and backendAPI.classifyMessage enters withRetry with its defaults.
GetBackendUser(found) ==
    /\ m_pc = "getuser"
    /\ IF found
       THEN /\ m_pc' = "classify"
            /\ WithRetryCall(DefaultMaxRetries, DefaultDelay)
       ELSE /\ m_pc' = "done"
            /\ UNCHANGED retryVars
    /\ m_backendUser' = IF found THEN "found" ELSE "null"
    /\ UNCHANGED <<m_msg, m_user, m_result, m_classifiedBy, m_exhausted,
                   m_feed, m_dmDecision, m_dm, m_record, m_caughtBy>>
    /\ UNCHANGED <<policyVars, storeVars, classifyVars, messageVars, viewVars>>

\* handleNotification entered past its feed write.
AfterClassificationSkipsFeed(result) ==
    IF result.should_notify THEN "decide" ELSE "done"

\* Where handleChannelMessage goes once it holds a classification result.
AfterClassification(result) ==
    IF result.should_notify THEN "notify" ELSE "done"

\* One attempt of classifyMessage answers with success = true and data.
ClassifyAttemptSucceeds(data) ==
    /\ m_pc = "classify"
    /\ RetryAttemptSucceeds(data)
    /\ m_result' = data
    /\ m_classifiedBy' = "remote"
    /\ m_pc' = AfterClassification(data)
    /\ UNCHANGED <<m_backendUser, m_msg, m_user, m_exhausted, m_feed, m_dmDecision, m_dm,
                   m_record, m_caughtBy>>
    /\ UNCHANGED <<policyVars, storeVars, classifyVars, messageVars, viewVars>>

\* One attempt fails; after the last one withRetry throws into the catch block
\* of handleChannelMessage, which logs through handleError.
ClassifyAttemptFails(k) ==
    /\ m_pc = "classify"
    /\ RetryAttemptFails(k)
    /\ IF RetryExhausted(r_attempt, r_maxRetries)
       THEN /\ m_exhausted' = TRUE
            /\ m_caughtBy' = "handleChannelMessage"
            /\ m_pc' = "done"
       ELSE UNCHANGED <<m_exhausted, m_caughtBy, m_pc>>
    /\ UNCHANGED <<m_backendUser, m_msg, m_user, m_result, m_classifiedBy, m_feed,
                   m_dmDecision, m_dm, m_record>>
    /\ UNCHANGED <<policyVars, storeVars, classifyVars, messageVars, viewVars>>

\* classifyMessage resolves with undefined (success is true, data is missing):
\* reading result.should_notify throws a TypeError into the catch block of
\* handleChannelMessage.
ClassifyAttemptNoData ==
    /\ m_pc = "classify"
    /\ RetryAttemptSucceeds(NoResult)
    /\ m_caughtBy' = "handleChannelMessage"
    /\ m_pc' = "done"
    /\ UNCHANGED <<m_backendUser, m_msg, m_user, m_result, m_classifiedBy, m_exhausted,
                   m_feed, m_dmDecision, m_dm, m_record>>
    /\ UNCHANGED <<policyVars, storeVars, classifyVars, messageVars, viewVars>>

\* One invocation of the operation of classifyMessage is rejected by axios.
ClassifyOperationRejects(k) ==
    /\ ClassifyAttemptFails(k)
    /\ r_outcomes' = Append(r_outcomes, k)

\* One invocation of the operation of classifyMessage receives a body.
ClassifyOperationAnswers(body) ==
    /\ IF OperationThrows(body)
       THEN ClassifyAttemptFails(ThrownKind(body))
       ELSE IF body.has_data
            THEN ClassifyAttemptSucceeds(body.data)
            ELSE ClassifyAttemptNoData
    /\ r_outcomes' = Append(r_outcomes, OutcomeOf(body))

\* handleNotification: the feed write, first; storeInNotificationFeed swallows
\* a rejected fetch and only warns on a response that is not ok.
StoreInFeed(outcome) ==
    /\ m_pc = "notify"
    /\ m_feed' = IF DeliveryOf(m_user).feed_enabled THEN outcome ELSE "none"
    /\ m_pc' = "decide"
    /\ UNCHANGED <<m_backendUser, m_msg, m_user, m_result, m_classifiedBy, m_exhausted,
                   m_dmDecision, m_dm, m_record, m_caughtBy>>
    /\ UNCHANGED <<retryVars, policyVars, storeVars, classifyVars, messageVars, viewVars>>

\* handleNotification: shouldSendDM, then sendSmartDM, which rethrows a failed
\* post into the catch block of handleNotification.
DecideAndSendDM(now, postOk) ==
    /\ m_pc = "decide"
    /\ LET send == shouldSendDM(m_result, DeliveryOf(m_user), m_user, now)
       IN /\ m_dmDecision' = IF send THEN "send" ELSE "skip"
          /\ m_dm' = IF ~send THEN "none" ELSE IF postOk THEN "sent" ELSE "failed"
          /\ m_caughtBy' = IF send /\ ~postOk THEN "handleNotification" ELSE m_caughtBy
          /\ m_pc' = IF send /\ ~postOk THEN "done" ELSE "track"
    /\ UNCHANGED <<m_backendUser, m_msg, m_user, m_result, m_classifiedBy, m_exhausted,
                   m_feed, m_record>>
    /\ UNCHANGED <<retryVars, policyVars, storeVars, classifyVars, messageVars, viewVars>>

\* trackNotificationSent: the analytics POST; posted is how the fetch ended.
TrackNotificationSent(posted) ==
    /\ m_pc = "track"
    /\ m_record' = [posted |-> posted,
                    sent_dm |-> (m_dmDecision = "send"),
                    stored_in_feed |-> TRUE,
                    category |-> m_result.category,
                    priority |-> m_result.priority]
    /\ m_pc' = "done"
    /\ UNCHANGED <<m_backendUser, m_msg, m_user, m_result, m_classifiedBy, m_exhausted,
                   m_feed, m_dmDecision, m_dm, m_caughtBy>>
    /\ UNCHANGED <<retryVars, policyVars, storeVars, classifyVars, messageVars, viewVars>>

FetchOutcomes == {"ok", "rejected", "failed"}

(***************************************************************************)
(* AIBackendService: the users map and updateUserSettings.                 *)
(***************************************************************************)

MaxCalls == 2
Calls == 1..MaxCalls

UserIds == {"U1", "U2"}
TeamIds == {"T1"}

\* `${slackUserId}-${teamId}`
UserKey(slackUserId, teamId) == slackUserId \o "-" \o teamId
Keys == {UserKey(u, t) : u \in UserIds, t \in TeamIds}

\* The top-level groups of UserSettings that updates touch.
Groups == {"notification_level", "keywords", "quiet_hours"}

\* The value of a group is abstracted to who wrote it: DefaultValue for
\* getDefaultUserSettings, the call's number for an update.
DefaultValue == 0
getDefaultUserSettings == [g \in Groups |-> DefaultValue]

\* Partial<UserSettings>: values for some of the groups.
Partials(c) == {[g \in gs |-> c] : gs \in (SUBSET Groups) \ {{}}}
NoPartial == [g \in {} |-> DefaultValue]

NoRef == 0

\* { ...user.settings, ...settings }
MergeSettings(current, partial) ==
    [g \in Groups |-> IF g \in DOMAIN partial THEN partial[g] ELSE current[g]]

\* A property present in the partial object with the value undefined.
UndefinedValue == -1

\* The call record of a caller that has made no call yet.
NoCall ==
    [op |-> "none", user |-> "", team |-> "", settings |-> NoPartial,
     ret |-> getDefaultUserSettings, run |-> 0]

\* getUser creating a fresh user on every lookup, found or not.
UserMissingAlways(key) == TRUE

\* getUser: `if (!user)`, the test that sends it to createUser.
UserMissing(key) == users[key] = NoRef

StoreInit ==
    /\ users = [k \in Keys |-> NoRef]
    /\ heap = <<>>
    /\ u_pc = [c \in Calls |-> "idle"]
    /\ u_args = [c \in Calls |-> [key |-> UserKey("U1", "T1"), settings |-> NoPartial]]
    /\ u_ref = [c \in Calls |-> NoRef]
    /\ u_ret = [c \in Calls |-> getDefaultUserSettings]
    /\ u_hist = [c \in Calls |-> [overlap |-> {}, created |-> FALSE]]
    /\ s_last = NoCall

\* getUser, which runs to completion without suspending: look the key up and,
\* when it is missing, createUser a fresh object with the default settings.
\* Yields the new map, the new heap and the reference returned.
GetUserEffect(key) ==
    IF UserMissing(key)
    THEN [users |-> [users EXCEPT ![key] = Len(heap) + 1],
          heap |-> Append(heap, getDefaultUserSettings),
          ref |-> Len(heap) + 1]
    ELSE [users |-> users, heap |-> heap, ref |-> users[key]]

\* A lookup on its own (testClassifyMessage calls getUser).
GetUser(slackUserId, teamId) ==
    LET e == GetUserEffect(UserKey(slackUserId, teamId))
    IN /\ users' = e.users
       /\ heap' = e.heap
       /\ UNCHANGED <<u_pc, u_args, u_ref, u_ret, u_hist, s_last>>
       /\ UNCHANGED <<policyVars, retryVars, pipeVars, classifyVars, messageVars, viewVars>>

\* updateUserSettings up to `await this.getUser(...)`: getUser has run, the
\* call is suspended holding the reference it resolved to. Calls are numbered
\* in the order in which they are made.
UpdateStart(c, slackUserId, teamId, settings) ==
    LET key == UserKey(slackUserId, teamId)
        e == GetUserEffect(key)
    IN /\ u_pc[c] = "idle"
       /\ \A d \in Calls : d < c => u_pc[d] # "idle"
       /\ users' = e.users
       /\ heap' = e.heap
       /\ u_ref' = [u_ref EXCEPT ![c] = e.ref]
       /\ u_args' = [u_args EXCEPT ![c] = [key |-> key, settings |-> settings]]
       /\ u_hist' = [u_hist EXCEPT ![c] =
                       [overlap |-> {d \in Calls : u_pc[d] = "awaiting"},
                        created |-> UserMissing(key)]]
       /\ u_pc' = [u_pc EXCEPT ![c] = "awaiting"]
       /\ UNCHANGED <<u_ret, s_last>>
       /\ UNCHANGED <<policyVars, retryVars, pipeVars, classifyVars, messageVars, viewVars>>

\* updateUserSettings after the await: merge into the object, store it under
\* the key again and return its settings.
UpdateFinish(c) ==
    LET merged == MergeSettings(heap[u_ref[c]], u_args[c].settings)
    IN /\ u_pc[c] = "awaiting"
       /\ heap' = [heap EXCEPT ![u_ref[c]] = merged]
       /\ users' = [users EXCEPT ![u_args[c].key] = u_ref[c]]
       /\ u_ret' = [u_ret EXCEPT ![c] = merged]
       /\ u_pc' = [u_pc EXCEPT ![c] = "done"]
       /\ UNCHANGED <<u_args, u_ref, u_hist, s_last>>
       /\ UNCHANGED <<policyVars, retryVars, pipeVars, classifyVars, messageVars, viewVars>>

(***************************************************************************)
(* AIBackendService: the store used by one caller, call after call.        *)
(***************************************************************************)

\* (slackUserId, teamId) pairs as the methods accept them: any two strings,
\* a hyphen included.
AnyPairs == {<<"U1", "T1">>, <<"U1-T", "T1">>, <<"U1", "T-T1">>}
AnyKeys == {UserKey(p[1], p[2]) : p \in AnyPairs}

\* The partial objects handed to updateUserSettings. The settings form
\* always sets notification_level, to the selected value or to undefined.
NewValue == 1
FormPartials ==
    {[g \in gs |-> NewValue] : gs \in (SUBSET Groups) \ {{}}}
    \cup {[g \in gs \cup {"notification_level"} |->
              IF g = "notification_level" THEN UndefinedValue ELSE NewValue] :
            gs \in SUBSET (Groups \ {"notification_level"})}

SettingsInit ==
    /\ users = [k \in AnyKeys |-> NoRef]
    /\ heap = <<>>
    /\ u_pc = [c \in Calls |-> "idle"]
    /\ u_args = [c \in Calls |-> [key |-> UserKey("U1", "T1"), settings |-> NoPartial]]
    /\ u_ref = [c \in Calls |-> NoRef]
    /\ u_ret = [c \in Calls |-> getDefaultUserSettings]
    /\ u_hist = [c \in Calls |-> [overlap |-> {}, created |-> FALSE]]
    /\ s_last = NoCall

\* const user = await this.getUser(slackUserId, teamId), the caller keeping
\* user.settings. run counts the lookups of this pair made in a row.
LookupSettings(slackUserId, teamId) ==
    LET e == GetUserEffect(UserKey(slackUserId, teamId))
    IN /\ users' = e.users
       /\ heap' = e.heap
       /\ s_last' = [op |-> "getUser", user |-> slackUserId, team |-> teamId,
                     settings |-> NoPartial, ret |-> e.heap[e.ref],
                     run |-> IF /\ s_last.op = "getUser"
                                /\ s_last.user = slackUserId
                                /\ s_last.team = teamId
                             THEN 2 ELSE 1]
       /\ UNCHANGED <<u_pc, u_args, u_ref, u_ret, u_hist>>
       /\ UNCHANGED <<policyVars, retryVars, pipeVars, classifyVars, messageVars, viewVars>>

\* await this.updateUserSettings(slackUserId, teamId, settings) with no other
\* call in between: getUser, the merge, the set and the return.
UpdateUserSettings(slackUserId, teamId, settings) ==
    LET key == UserKey(slackUserId, teamId)
        e == GetUserEffect(key)
        merged == MergeSettings(e.heap[e.ref], settings)
    IN /\ heap' = [e.heap EXCEPT ![e.ref] = merged]
       /\ users' = [e.users EXCEPT ![key] = e.ref]
       /\ s_last' = [op |-> "updateUserSettings", user |-> slackUserId,
                     team |-> teamId, settings |-> settings, ret |-> merged,
                     run |-> 0]
       /\ UNCHANGED <<u_pc, u_args, u_ref, u_ret, u_hist>>
       /\ UNCHANGED <<policyVars, retryVars, pipeVars, classifyVars, messageVars, viewVars>>

(***************************************************************************)
(* classifyMessageWithAI and getCleanedResponse.                           *)
(***************************************************************************)

\* A string is the sequence of its characters.
LowerChar(c) ==
    CASE c = "A" -> "a" [] c = "B" -> "b" [] c = "C" -> "c" [] c = "D" -> "d"
      [] c = "E" -> "e" [] c = "F" -> "f" [] c = "G" -> "g" [] c = "H" -> "h"
      [] c = "I" -> "i" [] c = "J" -> "j" [] c = "K" -> "k" [] c = "L" -> "l"
      [] c = "M" -> "m" [] c = "N" -> "n" [] c = "O" -> "o" [] c = "P" -> "p"
      [] c = "Q" -> "q" [] c = "R" -> "r" [] c = "S" -> "s" [] c = "T" -> "t"
      [] c = "U" -> "u" [] c = "V" -> "v" [] c = "W" -> "w" [] c = "X" -> "x"
      [] c = "Y" -> "y" [] c = "Z" -> "z" [] OTHER -> c

\* s.toLowerCase()
ToLowerCase(s) == [i \in 1..Len(s) |-> LowerChar(s[i])]

\* s.includes(w)
Includes(s, w) ==
    \E i \in 1..(Len(s) - Len(w) + 1) : SubSeq(s, i, i + Len(w) - 1) = w

WordUrgent == <<"u", "r", "g", "e", "n", "t">>
WordHelp == <<"h", "e", "l", "p">>
WordImportant == <<"i", "m", "p", "o", "r", "t", "a", "n", "t">>
WordAll == <<"a", "l", "l">>

\* Message texts and user descriptions the requests are drawn from.
MessageTexts ==
    {<<"U", "R", "G", "E", "N", "T", "!">>,
     <<"h", "e", "l", "p", " ", "m", "e">>,
     <<"l", "u", "n", "c", "h", "?">>}
UserDescriptions ==
    {<<"a", "l", "l", " ", "m", "e", "s", "s", "a", "g", "e", "s">>,
     <<"m", "e", "n", "t", "i", "o", "n", "e", "d">>}
AIRequests == [content : MessageTexts, userDescription : UserDescriptions]

\* What choices[0].message.content can be: a string, or null / undefined.
NullContent == <<"null">>
AnswerY == <<"y">>
AnswerN == <<"n">>
Contents ==
    {AnswerY, AnswerN, <<"Y", "e", "s">>, <<"N", "o", ".">>, NullContent}

\* How a fetch of a chat completion ends: the promise rejects, or a response
\* arrives with its `ok` flag and a body that does or does not hold
\* choices[0].message.
NoFetch ==
    [rejected |-> FALSE, ok |-> FALSE, has_choice |-> FALSE,
     content |-> NullContent, made |-> FALSE]
FetchResults ==
    {[rejected |-> TRUE, ok |-> FALSE, has_choice |-> FALSE,
      content |-> NullContent, made |-> TRUE],
     [rejected |-> FALSE, ok |-> FALSE, has_choice |-> FALSE,
      content |-> NullContent, made |-> TRUE],
     [rejected |-> FALSE, ok |-> TRUE, has_choice |-> FALSE,
      content |-> NullContent, made |-> TRUE]}
    \cup {[rejected |-> FALSE, ok |-> TRUE, has_choice |-> TRUE,
            content |-> c, made |-> TRUE] : c \in Contents}

\* for (let i = 0; i < 3; i++)
MaxCleanups == 3

\* The rule-based result when GMI_API_KEY is not set.
RulesUnconfigured(request) ==
    LET content == ToLowerCase(request.content)
    IN \/ Includes(content, WordUrgent)
       \/ Includes(content, WordHelp)
       \/ Includes(content, WordImportant)
       \/ Includes(ToLowerCase(request.userDescription), WordAll)

\* The rule-based result in the catch block.
RulesOnError(request) ==
    LET content == ToLowerCase(request.content)
    IN \/ Includes(content, WordUrgent)
       \/ Includes(content, WordHelp)
       \/ Includes(content, WordImportant)

\* The test on response.ok inverted.
HttpErrorThrowsInverted(result) == result.ok

\* if (!response.ok) throw new Error(...)
HttpErrorThrows(result) == ~result.ok

\* The classifier fetch ends in the catch block: fetch rejected, the status
\* was not ok, or data.choices[0].message could not be read.
PrimaryThrows(result) ==
    result.rejected \/ HttpErrorThrows(result) \/ ~result.has_choice

\* ai_response.toLowerCase().includes('y') ? 'y' : 'n'
CleanupFallback(ai_response) ==
    IF Includes(ToLowerCase(ai_response), AnswerY) THEN AnswerY ELSE AnswerN

ClassifyIdle ==
    /\ a_pc = "idle"
    /\ a_key = FALSE
    /\ a_request = [content |-> <<>>, userDescription |-> <<>>]
    /\ a_primary = NoFetch
    /\ a_response = NullContent
    /\ a_i = 0
    /\ a_cleanups = 0
    /\ a_answers = <<>>
    /\ a_result = FALSE
    /\ a_by = "none"

\* classifyMessageWithAI(request) up to the fetch of the completion; without
\* an API key it returns the rule-based result at once.
ClassifyWithAI(key, request) ==
    /\ a_pc \in {"idle", "done"}
    /\ a_key' = key
    /\ a_request' = request
    /\ a_primary' = NoFetch
    /\ a_response' = NullContent
    /\ a_i' = 0
    /\ a_cleanups' = 0
    /\ a_answers' = <<>>
    /\ IF ~key
       THEN /\ a_result' = RulesUnconfigured(request)
            /\ a_by' = "rules_unconfigured"
            /\ a_pc' = "done"
       ELSE /\ a_result' = FALSE
            /\ a_by' = "none"
            /\ a_pc' = "fetching"
    /\ UNCHANGED <<policyVars, retryVars, pipeVars, storeVars, messageVars, viewVars>>

\* The fetch of the completion ends: either the catch block returns the
\* rule-based result, or ai_response is read and the loop is entered.
PrimaryFetchEnds(result) ==
    /\ a_pc = "fetching"
    /\ a_primary' = result
    /\ IF PrimaryThrows(result)
       THEN /\ a_result' = RulesOnError(a_request)
            /\ a_by' = "rules_error"
            /\ a_pc' = "done"
            /\ UNCHANGED <<a_response, a_answers>>
       ELSE /\ a_response' = result.content
            /\ a_answers' = <<result.content>>
            /\ a_pc' = "loop"
            /\ UNCHANGED <<a_result, a_by>>
    /\ UNCHANGED <<a_key, a_request, a_i, a_cleanups>>
    /\ UNCHANGED <<policyVars, retryVars, pipeVars, storeVars, messageVars, viewVars>>

\* The loop header and the two tests of its body; after the loop, return false.
LoopStep ==
    /\ a_pc = "loop"
    /\ IF a_i < MaxCleanups
       THEN IF a_response = AnswerY
            THEN a_result' = TRUE /\ a_by' = "remote" /\ a_pc' = "done"
            ELSE IF a_response = AnswerN
            THEN a_result' = FALSE /\ a_by' = "remote" /\ a_pc' = "done"
            ELSE a_pc' = "cleaning" /\ UNCHANGED <<a_result, a_by>>
       ELSE a_result' = FALSE /\ a_by' = "default" /\ a_pc' = "done"
    /\ UNCHANGED <<a_key, a_request, a_primary, a_response, a_i, a_cleanups,
                   a_answers>>
    /\ UNCHANGED <<policyVars, retryVars, pipeVars, storeVars, messageVars, viewVars>>

\* ai_response = await getCleanedResponse(ai_response): the cleanup request
\* ends. Its content is returned as it is; when the request fails, the catch
\* block of getCleanedResponse reads ai_response.toLowerCase(), which throws
\* for a value that is not a string, into the catch block of
\* classifyMessageWithAI.
CleanupEnds(result) ==
    /\ a_pc = "cleaning"
    /\ a_cleanups' = a_cleanups + 1
    /\ IF ~result.rejected /\ result.has_choice
       THEN /\ a_response' = result.content
            /\ a_answers' = Append(a_answers, result.content)
            /\ a_i' = a_i + 1
            /\ a_pc' = "loop"
            /\ UNCHANGED <<a_result, a_by>>
       ELSE IF a_response = NullContent
       THEN /\ a_result' = RulesOnError(a_request)
            /\ a_by' = "rules_error"
            /\ a_pc' = "done"
            /\ UNCHANGED <<a_response, a_answers, a_i>>
       ELSE /\ a_response' = CleanupFallback(a_response)
            /\ a_answers' = Append(a_answers, CleanupFallback(a_response))
            /\ a_i' = a_i + 1
            /\ a_pc' = "loop"
            /\ UNCHANGED <<a_result, a_by>>
    /\ UNCHANGED <<a_key, a_request, a_primary>>
    /\ UNCHANGED <<policyVars, retryVars, pipeVars, storeVars, messageVars, viewVars>>

(***************************************************************************)
(* AIBackendService.classifyMessage: the metadata built around the boolean *)
(* that classifyMessageWithAI returns.                                     *)
(***************************************************************************)

WordEmergency == <<"e", "m", "e", "r", "g", "e", "n", "c", "y">>
WordAsap == <<"a", "s", "a", "p">>
WordAt == <<"@">>
WordMention == <<"m", "e", "n", "t", "i", "o", "n">>
WordDeadline == <<"d", "e", "a", "d", "l", "i", "n", "e">>
WordMeeting == <<"m", "e", "e", "t", "i", "n", "g">>
WordSpam == <<"s", "p", "a", "m">>
WordAdvertisement ==
    <<"a", "d", "v", "e", "r", "t", "i", "s", "e", "m", "e", "n", "t">>
WordPromotion == <<"p", "r", "o", "m", "o", "t", "i", "o", "n">>

\* determineCategory with the tests for mention and important exchanged.
determineCategoryImportantFirst(text, shouldNotify) ==
    LET lower == ToLowerCase(text)
    IN IF \/ Includes(lower, WordUrgent)
          \/ Includes(lower, WordEmergency)
          \/ Includes(lower, WordAsap)
       THEN "urgent"
       ELSE IF \/ Includes(lower, WordImportant)
               \/ Includes(lower, WordDeadline)
               \/ Includes(lower, WordMeeting)
       THEN "important"
       ELSE IF Includes(lower, WordAt) \/ Includes(lower, WordMention)
       THEN "mention"
       ELSE IF \/ Includes(lower, WordSpam)
               \/ Includes(lower, WordAdvertisement)
               \/ Includes(lower, WordPromotion)
       THEN "spam"
       ELSE IF shouldNotify THEN "important" ELSE "general"

\* determineCategory(text, shouldNotify)
determineCategory(text, shouldNotify) ==
    LET lower == ToLowerCase(text)
    IN IF \/ Includes(lower, WordUrgent)
          \/ Includes(lower, WordEmergency)
          \/ Includes(lower, WordAsap)
       THEN "urgent"
       ELSE IF Includes(lower, WordAt) \/ Includes(lower, WordMention)
       THEN "mention"
       ELSE IF \/ Includes(lower, WordImportant)
               \/ Includes(lower, WordDeadline)
               \/ Includes(lower, WordMeeting)
       THEN "important"
       ELSE IF \/ Includes(lower, WordSpam)
               \/ Includes(lower, WordAdvertisement)
               \/ Includes(lower, WordPromotion)
       THEN "spam"
       ELSE IF shouldNotify THEN "important" ELSE "general"

\* priority: high for urgent, medium for important and mention, low otherwise
PriorityOf(category) ==
    IF category = "urgent" THEN "high"
    ELSE IF category = "important" \/ category = "mention" THEN "medium"
    ELSE "low"

\* let confidence = 75; if urgent 95; else mention 90; important 85; spam 88
BaseConfidence(category) ==
    IF category = "urgent" THEN 95
    ELSE IF category = "mention" THEN 90
    ELSE IF category = "important" THEN 85
    ELSE IF category = "spam" THEN 88
    ELSE 75

\* Math.floor(Math.random() * 10)
RandomDigits == 0..9

\* The variance added without its offset.
VarianceUnshifted(digit) == digit

\* Math.floor(Math.random() * 10) - 5
Variance(digit) == digit - 5

Min(a, b) == IF a < b THEN a ELSE b
Max(a, b) == IF a > b THEN a ELSE b

\* confidence += variance; confidence = Math.max(60, Math.min(99, confidence))
ConfidenceOf(category, digit) ==
    Max(60, Min(99, BaseConfidence(category) + Variance(digit)))

\* The sentences of buildUserDescription, by notification_level.

SentenceAll ==
    <<"I", " ", "w", "a", "n", "t", " ", "t", "o", " ", "r", "e", "c", "e",
      "i", "v", "e", " ", "n", "o", "t", "i", "f", "i", "c", "a", "t", "i",
      "o", "n", "s", " ", "f", "o", "r", " ", "a", "l", "l", " ", "m", "e",
      "s", "s", "a", "g", "e", "s", ".">>
SentenceMentions ==
    <<"I", " ", "o", "n", "l", "y", " ", "w", "a", "n", "t", " ", "t", "o",
      " ", "r", "e", "c", "e", "i", "v", "e", " ", "n", "o", "t", "i", "f",
      "i", "c", "a", "t", "i", "o", "n", "s", " ", "w", "h", "e", "n", " ",
      "I", " ", "a", "m", " ", "m", "e", "n", "t", "i", "o", "n", "e", "d",
      " ", "o", "r", " ", "d", "i", "r", "e", "c", "t", "l", "y", " ", "m",
      "e", "s", "s", "a", "g", "e", "d", ".">>
SentenceImportant ==
    <<"I", " ", "o", "n", "l", "y", " ", "w", "a", "n", "t", " ", "t", "o",
      " ", "r", "e", "c", "e", "i", "v", "e", " ", "n", "o", "t", "i", "f",
      "i", "c", "a", "t", "i", "o", "n", "s", " ", "f", "o", "r", " ", "i",
      "m", "p", "o", "r", "t", "a", "n", "t", " ", "m", "e", "s", "s", "a",
      "g", "e", "s", ",", " ", "u", "r", "g", "e", "n", "t", " ", "i", "s",
      "s", "u", "e", "s", ",", " ", "a", "n", "d", " ", "d", "i", "r", "e",
      "c", "t", " ", "m", "e", "n", "t", "i", "o", "n", "s", ".">>
SentenceNone ==
    <<"I", " ", "d", "o", " ", "n", "o", "t", " ", "w", "a", "n", "t", " ",
      "t", "o", " ", "r", "e", "c", "e", "i", "v", "e", " ", "a", "n", "y",
      " ", "n", "o", "t", "i", "f", "i", "c", "a", "t", "i", "o", "n", "s",
      " ", "u", "n", "l", "e", "s", "s", " ", "e", "x", "t", "r", "e", "m",
      "e", "l", "y", " ", "u", "r", "g", "e", "n", "t", ".">>
SentenceDefault ==
    <<"I", " ", "w", "a", "n", "t", " ", "n", "o", "t", "i", "f", "i", "c",
      "a", "t", "i", "o", "n", "s", " ", "f", "o", "r", " ", "i", "m", "p",
      "o", "r", "t", "a", "n", "t", " ", "a", "n", "d", " ", "u", "r", "g",
      "e", "n", "t", " ", "m", "e", "s", "s", "a", "g", "e", "s", ".">>
SentenceKeywords ==
    <<" ", "P", "a", "y", " ", "s", "p", "e", "c", "i", "a", "l", " ", "a",
      "t", "t", "e", "n", "t", "i", "o", "n", " ", "t", "o", " ", "m", "e",
      "s", "s", "a", "g", "e", "s", " ", "c", "o", "n", "t", "a", "i", "n",
      "i", "n", "g", " ", "t", "h", "e", "s", "e", " ", "k", "e", "y", "w",
      "o", "r", "d", "s", ":", " ">>

\* keywords.join(', ')
RECURSIVE JoinComma(_)
JoinComma(words) ==
    IF Len(words) = 0 THEN <<>>
    ELSE IF Len(words) = 1 THEN words[1]
    ELSE words[1] \o <<",", " ">> \o JoinComma(Tail(words))

\* buildUserDescription(settings)
buildUserDescription(settings) ==
    LET description ==
            CASE settings.notification_level = "all" -> SentenceAll
              [] settings.notification_level = "mentions" -> SentenceMentions
              [] settings.notification_level = "important" -> SentenceImportant
              [] settings.notification_level = "none" -> SentenceNone
              [] OTHER -> SentenceDefault
    IN IF Len(settings.keywords) > 0
       THEN description \o SentenceKeywords \o JoinComma(settings.keywords)
                \o <<".">>
       ELSE description

\* The part of getDefaultUserSettings() that buildUserDescription reads.
DefaultKeywords == <<WordUrgent, WordDeadline, WordMeeting, WordHelp>>
DefaultClassifierSettings ==
    [notification_level |-> "important", keywords |-> DefaultKeywords]
ClassifierSettings ==
    [notification_level : {"all", "mentions", "important"},
     keywords : {DefaultKeywords, <<>>}]

\* adaptSlackToAI(request)
adaptSlackToAI(request) ==
    [content |-> request.text,
     userDescription |-> buildUserDescription(request.user_settings)]

\* Message texts the requests carry.

ScenarioAText ==
    <<"P", "r", "o", "d", "u", "c", "t", "i", "o", "n", " ", "i", "s", " ",
      "d", "o", "w", "n", "!", " ", "N", "e", "e", "d", " ", "i", "m", "m",
      "e", "d", "i", "a", "t", "e", " ", "h", "e", "l", "p", ".">>
RequestTexts ==
    {ScenarioAText,
     <<"U", "R", "G", "E", "N", "T", " ", "m", "e", "e", "t", "i", "n", "g",
       " ", "@", "b", "o", "b">>,
     <<"@", "b", "o", "b", ":", " ", "d", "e", "a", "d", "l", "i", "n", "e",
       ",", " ", "n", "o", " ", "s", "p", "a", "m">>,
     <<"m", "e", "e", "t", "i", "n", "g", " ", "p", "r", "o", "m", "o", "t",
       "i", "o", "n">>,
     <<"b", "i", "g", " ", "p", "r", "o", "m", "o", "t", "i", "o", "n">>,
     <<"A", "S", "A", "P">>,
     <<"l", "u", "n", "c", "h", "?">>}

\* A ClassificationRequest; has_text is FALSE when request.message.text is not
\* a string, so that text.substring(0, 50) throws into the catch block.
NoText == <<>>
ClassificationRequests ==
    [has_text : {TRUE}, text : RequestTexts, user_settings : ClassifierSettings]
    \cup [has_text : {FALSE}, text : {NoText},
          user_settings : {DefaultClassifierSettings}]

\* The ClassificationResult of the catch block; failed stands for its tags,
\* ['error'].
ErrorResult ==
    [should_notify |-> FALSE, confidence |-> 50, category |-> "general",
     priority |-> "low", failed |-> TRUE]
NoClassification ==
    [should_notify |-> FALSE, confidence |-> 0, category |-> "none",
     priority |-> "none", failed |-> FALSE]

MessageIdle ==
    /\ cm_pc = "idle"
    /\ cm_request = [has_text |-> FALSE, text |-> NoText,
                     user_settings |-> DefaultClassifierSettings]
    /\ cm_key = FALSE
    /\ cm_notify = FALSE
    /\ cm_result = NoClassification

MessageInit ==
    /\ cm_pc = "called"
    /\ cm_request \in ClassificationRequests
    /\ cm_key = FALSE
    /\ cm_notify = FALSE
    /\ cm_result = NoClassification

\* classifyMessage(request).  classifyMessageWithAI is taken by what it
\* returns: the rule-based result when no API key is set, and otherwise the
\* boolean `answer` that the exchange with the classifier ends on.
ClassifyMessage(key, answer, digit) ==
    /\ cm_pc = "called"
    /\ cm_pc' = "done"
    /\ cm_key' = key
    /\ IF ~cm_request.has_text
       THEN /\ cm_notify' = FALSE
            /\ cm_result' = ErrorResult
       ELSE LET shouldNotify ==
                    IF key THEN answer
                    ELSE RulesUnconfigured(adaptSlackToAI(cm_request))
                category == determineCategory(cm_request.text, shouldNotify)
            IN /\ cm_notify' = shouldNotify
               /\ cm_result' = [should_notify |-> shouldNotify,
                                confidence |-> ConfidenceOf(category, digit),
                                category |-> category,
                                priority |-> PriorityOf(category),
                                failed |-> FALSE]
    /\ UNCHANGED cm_request
    /\ UNCHANGED <<policyVars, retryVars, pipeVars, storeVars, classifyVars, viewVars>>

(***************************************************************************)
(* ViewStateManager (utils/viewState.ts): per-user view state.             *)
(***************************************************************************)

ViewUserIds == {"U1", "U2"}
ViewErrors == {"load failed", "denied"}
ViewData == {"stats"}
ViewUsers == {"alice"}

\* undefined for the optional fields error and user; null for data.
NoError == "undefined"
NoViewUser == "undefined"
NullData == "null"

\* An entry of the map `states`; present is FALSE when the map holds no entry
\* for the id.
NoEntry ==
    [present |-> FALSE, loading |-> FALSE, error |-> NoError,
     data |-> NullData, user |-> NoViewUser]

\* getState(userId): this.states.get(userId) || {loading: false, data: null}
getState(userId) ==
    LET entry == v_states[userId]
    IN IF entry.present
       THEN [loading |-> entry.loading, error |-> entry.error,
             data |-> entry.data, user |-> entry.user]
       ELSE [loading |-> FALSE, error |-> NoError, data |-> NullData,
             user |-> NoViewUser]

\* this.states.set(userId, state)
SetEntry(userId, state) ==
    [v_states EXCEPT ![userId] =
        [present |-> TRUE, loading |-> state.loading, error |-> state.error,
         data |-> state.data, user |-> state.user]]

NoViewCall ==
    [op |-> "none", userId |-> "none", loading |-> FALSE, value |-> "none",
     before |-> [loading |-> FALSE, error |-> NoError, data |-> NullData,
                 user |-> NoViewUser]]

ViewIdle ==
    /\ v_states = [id \in ViewUserIds |-> NoEntry]
    /\ v_last = NoViewCall

\* setLoading with the error kept whatever `loading` is.
ErrorOnSetLoadingKept(loading, current) == current.error

\* error: loading ? undefined : current.error
ErrorOnSetLoading(loading, current) ==
    IF loading THEN NoError ELSE current.error

\* setLoading(userId, loading)
setLoading(userId, loading) ==
    LET current == getState(userId)
    IN /\ v_states' = SetEntry(userId,
                          [current EXCEPT !.loading = loading,
                                          !.error = ErrorOnSetLoading(loading, current)])
       /\ v_last' = [op |-> "setLoading", userId |-> userId,
                     loading |-> loading, value |-> "none", before |-> current]
       /\ UNCHANGED <<policyVars, retryVars, pipeVars, storeVars, classifyVars, messageVars>>

\* setError(userId, error)
setError(userId, error) ==
    LET current == getState(userId)
    IN /\ v_states' = SetEntry(userId,
                          [current EXCEPT !.loading = FALSE, !.error = error])
       /\ v_last' = [op |-> "setError", userId |-> userId, loading |-> FALSE,
                     value |-> error, before |-> current]
       /\ UNCHANGED <<policyVars, retryVars, pipeVars, storeVars, classifyVars, messageVars>>

\* setData(userId, data)
setData(userId, data) ==
    LET current == getState(userId)
    IN /\ v_states' = SetEntry(userId,
                          [current EXCEPT !.loading = FALSE, !.error = NoError,
                                          !.data = data])
       /\ v_last' = [op |-> "setData", userId |-> userId, loading |-> FALSE,
                     value |-> data, before |-> current]
       /\ UNCHANGED <<policyVars, retryVars, pipeVars, storeVars, classifyVars, messageVars>>

\* setUser(userId, user)
setUser(userId, user) ==
    LET current == getState(userId)
    IN /\ v_states' = SetEntry(userId, [current EXCEPT !.user = user])
       /\ v_last' = [op |-> "setUser", userId |-> userId, loading |-> FALSE,
                     value |-> user, before |-> current]
       /\ UNCHANGED <<policyVars, retryVars, pipeVars, storeVars, classifyVars, messageVars>>

\* clear(userId): this.states.delete(userId)
clear(userId) ==
    /\ v_states' = [v_states EXCEPT ![userId] = NoEntry]
    /\ v_last' = [op |-> "clear", userId |-> userId, loading |-> FALSE,
                  value |-> "none", before |-> getState(userId)]
    /\ UNCHANGED <<policyVars, retryVars, pipeVars, storeVars, classifyVars, messageVars>>

\* clearAll(): this.states.clear()
clearAll ==
    /\ v_states' = [id \in ViewUserIds |-> NoEntry]
    /\ v_last' = [NoViewCall EXCEPT !.op = "clearAll"]
    /\ UNCHANGED <<policyVars, retryVars, pipeVars, storeVars, classifyVars, messageVars>>

(***************************************************************************)
(* Specifications.                                                         *)
(***************************************************************************)

PolicyStart == PolicyInit /\ RetryIdle /\ PipelineIdle /\ StoreInit /\ ClassifyIdle
    /\ MessageIdle /\ ViewIdle

PolicyNext == ResolveDM

SpecPolicy == PolicyStart /\ [][PolicyNext]_vars

RetryInit ==
    /\ r_pc = "running"
    /\ r_maxRetries \in 0..MaxRetriesBound
    /\ r_delay \in RetryDelays
    /\ r_attempt = 1
    /\ r_calls = 0
    /\ r_waits = <<>>
    /\ r_lastError = InitialError
    /\ r_value = NoValue
    /\ r_outcomes = <<>>

RetryStart == PolicyIdle /\ RetryInit /\ PipelineIdle /\ StoreInit /\ ClassifyIdle
    /\ MessageIdle /\ ViewIdle

RetryNext ==
    \/ RetryLoopExit /\ UNCHANGED <<policyVars, pipeVars, storeVars, classifyVars, messageVars, viewVars>>
    \/ /\ \E body \in Bodies(RetryValues, NoValue) : RetryOperationAnswers(body)
       /\ UNCHANGED <<policyVars, pipeVars, storeVars, classifyVars, messageVars, viewVars>>
    \/ /\ \E k \in RejectKinds : RetryOperationRejects(k)
       /\ UNCHANGED <<policyVars, pipeVars, storeVars, classifyVars, messageVars, viewVars>>

SpecRetry == RetryStart /\ [][RetryNext]_vars

PipelineStart == PolicyIdle /\ RetryIdle /\ PipelineIdle /\ StoreInit /\ ClassifyIdle
    /\ MessageIdle /\ ViewIdle

PipelineNext ==
    \/ \E msg \in Messages : Receive(msg)
    \/ HandleAllMessages
    \/ \E userFound, postOk \in BOOLEAN : HandleDirectMessage(userFound, postOk)
    \/ \E userFound, channelFound \in BOOLEAN :
          LookupUserAndChannel(userFound, channelFound)
    \/ EnsureUserExists
    \/ \E healthy \in BOOLEAN : CheckBackendHealth(healthy)
    \/ \E found \in BOOLEAN : GetBackendUser(found)
    \/ \E body \in Bodies(ClassifierData, NoResult) : ClassifyOperationAnswers(body)
    \/ \E k \in RejectKinds : ClassifyOperationRejects(k)
    \/ \E outcome \in FetchOutcomes : StoreInFeed(outcome)
    \/ \E now \in ClockSamples, postOk \in BOOLEAN : DecideAndSendDM(now, postOk)
    \/ \E posted \in FetchOutcomes : TrackNotificationSent(posted)

SpecPipeline == PipelineStart /\ [][PipelineNext]_vars

StoreStart == PolicyIdle /\ RetryIdle /\ PipelineIdle /\ StoreInit /\ ClassifyIdle
    /\ MessageIdle /\ ViewIdle

StoreNext ==
    \/ \E u \in UserIds, t \in TeamIds : GetUser(u, t)
    \/ \E c \in Calls, u \in UserIds, t \in TeamIds :
          \E settings \in Partials(c) : UpdateStart(c, u, t, settings)
    \/ \E c \in Calls : UpdateFinish(c)

SpecStore == StoreStart /\ [][StoreNext]_vars

ClassifyStart == PolicyIdle /\ RetryIdle /\ PipelineIdle /\ StoreInit /\ ClassifyIdle
    /\ MessageIdle /\ ViewIdle

ClassifyNext ==
    \/ \E key \in BOOLEAN, request \in AIRequests : ClassifyWithAI(key, request)
    \/ \E result \in FetchResults : PrimaryFetchEnds(result)
    \/ LoopStep
    \/ \E result \in FetchResults : CleanupEnds(result)

SpecClassify == ClassifyStart /\ [][ClassifyNext]_vars

SettingsStart ==
    PolicyIdle /\ RetryIdle /\ PipelineIdle /\ SettingsInit /\ ClassifyIdle
    /\ MessageIdle /\ ViewIdle

SettingsNext ==
    \/ \E p \in AnyPairs : LookupSettings(p[1], p[2])
    \/ \E p \in AnyPairs, settings \in FormPartials :
          UpdateUserSettings(p[1], p[2], settings)

SpecSettings == SettingsStart /\ [][SettingsNext]_vars

MessageStart ==
    PolicyIdle /\ RetryIdle /\ PipelineIdle /\ StoreInit /\ ClassifyIdle
    /\ MessageInit /\ ViewIdle

MessageNext ==
    \E key, answer \in BOOLEAN, digit \in RandomDigits :
        ClassifyMessage(key, answer, digit)

SpecMessage == MessageStart /\ [][MessageNext]_vars

ViewStart ==
    PolicyIdle /\ RetryIdle /\ PipelineIdle /\ StoreInit /\ ClassifyIdle
    /\ MessageIdle /\ ViewIdle

ViewNext ==
    \/ \E id \in ViewUserIds, loading \in BOOLEAN : setLoading(id, loading)
    \/ \E id \in ViewUserIds, error \in ViewErrors : setError(id, error)
    \/ \E id \in ViewUserIds, data \in ViewData : setData(id, data)
    \/ \E id \in ViewUserIds, user \in ViewUsers : setUser(id, user)
    \/ \E id \in ViewUserIds : clear(id)
    \/ clearAll

SpecView == ViewStart /\ [][ViewNext]_vars

\* The `user` argument of handleNotification: the object getSlackUser
\* returns, or a user object carrying settings.delivery_preferences.
NotifyUsers ==
    {getSlackUser}
    \cup [has_settings : {TRUE}, has_quiet_hours : {FALSE},
          quiet_hours : {NoQuietHours}, has_delivery : {TRUE},
          delivery_preferences : DeliveryPrefs]

\* handleNotification(user, message, channelInfo, classificationResult) is
\* entered: handleChannelMessage calls it for a result with should_notify.
NotifyInit ==
    /\ m_pc = "notify"
    /\ m_msg = [bot |-> FALSE, has_user |-> TRUE, is_dm |-> FALSE]
    /\ m_user \in NotifyUsers
    /\ m_backendUser = "found"
    /\ m_result \in {d \in ClassifierData : d.should_notify}
    /\ m_classifiedBy = "remote"
    /\ m_exhausted = FALSE
    /\ m_feed = "none"
    /\ m_dmDecision = "none"
    /\ m_dm = "none"
    /\ m_record = NoRecord
    /\ m_caughtBy = "none"

NotifyStart ==
    PolicyIdle /\ RetryIdle /\ NotifyInit /\ StoreInit /\ ClassifyIdle
    /\ MessageIdle /\ ViewIdle

NotifyNext ==
    \/ \E outcome \in FetchOutcomes : StoreInFeed(outcome)
    \/ \E now \in ClockSamples, postOk \in BOOLEAN : DecideAndSendDM(now, postOk)
    \/ \E posted \in FetchOutcomes : TrackNotificationSent(posted)

SpecNotify == NotifyStart /\ [][NotifyNext]_vars

(***************************************************************************)
(* Properties.                                                             *)
(***************************************************************************)

\* The settings stored under a key.
StoredSettings(key) == heap[users[key]]

\* The completed updateUserSettings calls for `key` that wrote group g.
DoneWriters(key, g) ==
    {d \in Calls : u_pc[d] = "done" /\ u_args[d].key = key
                     /\ g \in DOMAIN u_args[d].settings}

\* C1: two concurrent updateUserSettings calls for the same key never lose
\* an update: once a call has completed, every group it wrote holds, in the
\* stored settings of its key, the value written by a completed call for that
\* key (its own, or that of another call that wrote the same group), in
\* every interleaving and also when the key did not exist beforehand.
C1_NoLostUpdate ==
    \A c \in Calls :
        u_pc[c] = "done" =>
            \A g \in DOMAIN u_args[c].settings :
                StoredSettings(u_args[c].key)[g] \in
                    {u_args[d].settings[g] : d \in DoneWriters(u_args[c].key, g)}

\* Two calls for one key that did not exist, the second started while the
\* first was suspended, writing different groups; both have completed and the
\* stored settings hold both writes.
C1_Witness ==
    \E c, d \in Calls :
        /\ c # d
        /\ u_pc[c] = "done" /\ u_pc[d] = "done"
        /\ u_args[c].key = u_args[d].key
        /\ u_hist[d].created
        /\ d \in u_hist[c].overlap
        /\ DOMAIN u_args[c].settings = {"keywords"}
        /\ DOMAIN u_args[d].settings = {"notification_level"}
        /\ StoredSettings(u_args[c].key)["keywords"] = c
        /\ StoredSettings(u_args[c].key)["notification_level"] = d

\* quiet_hours.enabled on the user handed to the decision.
QuietEnabled(user) ==
    user.has_settings /\ user.has_quiet_hours /\ user.quiet_hours.enabled

\* The wraparound-aware window of the specification: [start, end) when
\* start <= end, and the overnight window otherwise.
WindowContains(now, start, end) ==
    IF start <= end THEN start <= now /\ now < end
    ELSE now >= start \/ now < end

\* The current time is inside the configured window (22:00 and 08:00 standing
\* in for a missing start and end).
InsideConfiguredWindow ==
    WindowContains(p_now,
                   SetHours(p_user.quiet_hours.start_time, T2200),
                   SetHours(p_user.quiet_hours.end_time, T0800))

C3_UrgentFollowsFlag ==
    (p_decided /\ p_result.category = "urgent")
    => (p_dm = p_delivery.urgent_via_dm /\ p_quiet = FALSE)

\* An urgent message inside an enabled quiet-hours window that is sent as a DM.
C3_Witness ==
    /\ p_decided
    /\ p_result.category = "urgent"
    /\ QuietEnabled(p_user)
    /\ InsideConfiguredWindow
    /\ p_delivery.urgent_via_dm
    /\ p_dm = TRUE
    /\ p_quiet = FALSE

\* C4: with quiet hours enabled and a non-urgent category, the quiet-hours
\* test is true exactly when the time is inside the wraparound-aware window.
C4_WraparoundAware ==
    (p_decided /\ QuietEnabled(p_user) /\ p_result.category # "urgent")
    => (p_quiet = InsideConfiguredWindow)

\* C5: whenever feed_enabled is true, a processed (classified) channel
\* message has had its feed write attempted, whatever should_notify is.
C5_FeedUnconditional ==
    (m_pc = "done" /\ m_classifiedBy # "none" /\ DeliveryOf(m_user).feed_enabled)
    => m_feed # "none"

\* The specification's in_quiet_hours: enabled, not urgent, inside the window.
SpecInQuietHours ==
    QuietEnabled(p_user) /\ p_result.category # "urgent" /\ InsideConfiguredWindow

\* The selection by category the claim states.
ClaimedDM ==
    IF p_result.category = "urgent" THEN p_delivery.urgent_via_dm
    ELSE IF p_result.category = "important" THEN p_delivery.important_via_dm
    ELSE IF p_result.category = "mention" THEN p_delivery.mentions_via_dm
    ELSE p_result.priority = "high" /\ p_delivery.urgent_via_dm

\* C6: outside quiet hours the DM decision is the one selected by category:
\* the urgent, important or mention flag, and for any other category
\* priority = high and urgent_via_dm.
C6_CategorySelectsDM ==
    (p_decided /\ ~SpecInQuietHours) => (p_dm = ClaimedDM)

\* C7: when the classifier call has failed on all of its attempts, the
\* message is classified by the fallback and a record is still produced.
C7_FallbackOnExhaustion ==
    (m_pc = "done" /\ m_exhausted)
    => (m_classifiedBy = "fallback" /\ m_record.posted # "none")

\* C8: every channel message from a non-bot user ends its run with a
\* record emitted, on every path through the pipeline.
C8_RecordAlwaysEmitted ==
    (m_pc = "done" /\ ~m_msg.bot /\ m_msg.has_user /\ ~m_msg.is_dm)
    => m_record.posted # "none"

\* C9: the DM send and the feed write are independent: a failed DM send
\* keeps the feed write and the tracking record, and a failed feed write
\* keeps the DM send and the tracking record.
C9_BestEffortIndependent ==
    m_pc = "done" =>
        /\ m_dm = "failed" => (m_feed # "none" /\ m_record.posted # "none")
        /\ (m_feed = "failed" /\ m_dm # "failed") =>
              (m_dmDecision # "none" /\ m_record.posted # "none")

NonDecreasing(seq) == \A i \in 1..(Len(seq) - 1) : seq[i] <= seq[i + 1]

\* C10: when every attempt fails, withRetry invokes the operation exactly
\* maxRetries times and then raises the error of the last attempt, and the
\* waits between attempts are non-decreasing.
C10_RetryCountAndBackoff ==
    /\ NonDecreasing(r_waits)
    /\ r_pc = "raised" =>
          /\ r_calls = r_maxRetries
          /\ r_value = r_lastError
          /\ r_value.at = r_maxRetries

\* The default call, failed three times: two waits of 1000 and 2000 ms, then
\* the third error raised.
C10_Witness ==
    /\ r_pc = "raised"
    /\ r_maxRetries = DefaultMaxRetries
    /\ r_delay = DefaultDelay
    /\ r_calls = 3
    /\ r_waits = <<1000, 2000>>
    /\ r_value.at = 3

\* C11: a malformed classifier response is not retried: once an invocation
\* has ended with a body that is not a valid response, no further invocation
\* is made, and the message ends classified by the fallback.
C11_ProtocolErrorNotRetried ==
    \A i \in 1..Len(r_outcomes) :
        r_outcomes[i] = "protocol" =>
            /\ i = Len(r_outcomes)
            /\ m_pc = "done" => m_classifiedBy = "fallback"

\* C12: a response with success = false is handled by the retry loop exactly
\* like a transport error: it is never the value returned, it consumes one
\* attempt, it is followed by the wait delay * attempt unless it was the last
\* attempt, and on attempt maxRetries it is raised.
C12_AppFailureLikeTransport ==
    /\ Len(r_outcomes) = r_calls
    /\ r_pc = "running" => r_attempt = r_calls + 1
    /\ \A i \in 1..Len(r_outcomes) :
          r_outcomes[i] \in {"app_failure", "transport"} =>
              /\ r_pc = "returned" => i < Len(r_outcomes)
              /\ i < r_maxRetries =>
                    (Len(r_waits) >= i /\ r_waits[i] = r_delay * i)
              /\ i = r_maxRetries =>
                    (r_pc = "raised" /\ r_value.kind = r_outcomes[i]
                       /\ r_value.at = i /\ Len(r_waits) = i - 1)

\* Three responses with success = false under the defaults: waits of 1000
\* and 2000 ms, then the third error raised.
C12_Witness ==
    /\ r_pc = "raised"
    /\ r_maxRetries = DefaultMaxRetries
    /\ r_delay = DefaultDelay
    /\ r_outcomes = <<"app_failure", "app_failure", "app_failure">>
    /\ r_waits = <<1000, 2000>>
    /\ r_value = [kind |-> "app_failure", at |-> 3]

\* ai_response is exactly "y" or exactly "n".
Canonical(answer) == answer = AnswerY \/ answer = AnswerN

\* C13: the cleanup loop is bounded and fail-safe: no classification issues
\* more than 3 cleanup requests, and when the classifier answered and neither
\* its output nor any cleaned output is exactly "y" or "n", the result is
\* should_notify = false.
C13_CleanupBoundedFailSafe ==
    /\ a_cleanups <= 3
    /\ (a_pc = "done" /\ a_answers # <<>>
          /\ \A j \in 1..Len(a_answers) : ~Canonical(a_answers[j]))
       => a_result = FALSE

\* C14: the settings lookup of the message pipeline never comes back
\* empty: no message is skipped because its user was not found.
C14_LookupNeverEmpty ==
    m_backendUser # "null"

\* C15: getOrCreate is idempotent: of two lookups of the same pair made in
\* a row with no update in between, the second returns settings equal to
\* those the first returned and leaves the store as it was.
C15_GetOrCreateIdempotent ==
    [][(/\ s_last.op = "getUser"
        /\ s_last'.op = "getUser"
        /\ s_last'.user = s_last.user
        /\ s_last'.team = s_last.team)
       => (/\ s_last'.ret = s_last.ret
           /\ users' = users
           /\ heap' = heap)]_vars

\* A pair looked up twice in a row after an update has changed its settings.
C15_Witness ==
    /\ s_last.op = "getUser"
    /\ s_last.run = 2
    /\ s_last.ret # getDefaultUserSettings
    /\ s_last.ret = heap[users[UserKey(s_last.user, s_last.team)]]

\* The settings an update of `key` starts from: the stored ones, or the
\* defaults of the user that getUser creates.
SettingsBefore(key) ==
    IF users[key] = NoRef THEN getDefaultUserSettings ELSE heap[users[key]]

\* C16: after updateUserSettings with a partial object, every group the
\* caller did not specify, a group passed with no value included, has the
\* value it had before the call, and every specified group has the value
\* passed.
C16_UpdateKeepsUntouchedGroups ==
    [][s_last'.op = "updateUserSettings" =>
         LET key == UserKey(s_last'.user, s_last'.team)
             partial == s_last'.settings
         IN \A g \in Groups :
                IF g \in DOMAIN partial /\ partial[g] # UndefinedValue
                THEN heap'[users'[key]][g] = partial[g]
                ELSE heap'[users'[key]][g] = SettingsBefore(key)[g]]_vars

\* What the store holds for a pair: nothing, or its settings.
EntryOf(pair) ==
    LET key == UserKey(pair[1], pair[2])
    IN IF users[key] = NoRef
       THEN [present |-> FALSE, settings |-> getDefaultUserSettings]
       ELSE [present |-> TRUE, settings |-> heap[users[key]]]

\* C17: the store holds one entry per (user_id, team_id) pair: a lookup or
\* an update of one pair leaves the entry of every other pair as it was.
C17_OneEntryPerPair ==
    [][\A p, q \in AnyPairs :
          (p # q /\ s_last'.user = p[1] /\ s_last'.team = p[2])
          => EntryOf(q)' = EntryOf(q)]_vars

\* The position of a handler step in the order of the code.
StageRank(pc) ==
    CASE pc = "idle" -> 0 [] pc = "received" -> 1 [] pc = "direct" -> 2
      [] pc = "channel" -> 2 [] pc = "ensure" -> 3 [] pc = "health" -> 4
      [] pc = "getuser" -> 5 [] pc = "classify" -> 6 [] pc = "notify" -> 7
      [] pc = "decide" -> 8 [] pc = "track" -> 9 [] pc = "done" -> 10

\* Within one message no step is taken twice and none is gone back to; only
\* the classifier attempt is repeated.
NoStageRevisited ==
    m_pc' # "received" =>
        \/ StageRank(m_pc') > StageRank(m_pc)
        \/ m_pc = "classify" /\ m_pc' = "classify" /\ r_calls' = r_calls + 1

C19_TimeoutEndsOnFallback ==
    /\ r_calls <= r_maxRetries
    /\ (m_pc = "done" /\ r_outcomes # <<>>
          /\ \A i \in 1..Len(r_outcomes) : r_outcomes[i] = "timeout")
       => m_classifiedBy = "fallback"

\* The classifier completion arrived with a content of exactly "y" or "n".
UsableAnswer ==
    /\ a_primary.made /\ ~a_primary.rejected
    /\ a_primary.ok /\ a_primary.has_choice
    /\ Canonical(a_primary.content)

\* C20: whenever the remote classifier returned a usable answer, the
\* should_notify value of the result is that answer and not the rule-based
\* one; the rule-based result of the unconfigured path is used exactly when
\* no API key is set.
C20_RemoteAnswerWins ==
    a_pc = "done" =>
        /\ UsableAnswer =>
              (a_by = "remote" /\ a_result = (a_primary.content = AnswerY))
        /\ a_by = "rules_unconfigured" <=> ~a_key
        /\ a_by = "remote" => Canonical(a_response)

\* The classifier answered "y" for a message on which the rules say no.
C20_Witness ==
    /\ a_pc = "done"
    /\ a_key
    /\ UsableAnswer
    /\ a_primary.content = AnswerY
    /\ RulesOnError(a_request) = FALSE
    /\ a_result = TRUE

\* The keyword groups of the category scan, in the order they are tested.
GroupOrder == <<"urgent", "mention", "important", "spam">>
GroupWords(g) ==
    CASE g = "urgent" -> {WordUrgent, WordEmergency, WordAsap}
      [] g = "mention" -> {WordAt, WordMention}
      [] g = "important" -> {WordImportant, WordDeadline, WordMeeting}
      [] g = "spam" -> {WordSpam, WordAdvertisement, WordPromotion}

\* The ranks of the groups a text matches.
MatchedRanks(text) ==
    {i \in 1..Len(GroupOrder) :
        \E w \in GroupWords(GroupOrder[i]) : Includes(ToLowerCase(text), w)}

\* The group of least rank among those matched, or `otherwise`.
FirstMatch(text, otherwise) ==
    LET ranks == MatchedRanks(text)
    IN IF ranks = {} THEN otherwise
       ELSE GroupOrder[CHOOSE i \in ranks : \A j \in ranks : i <= j]

\* C21 (as stated): the category of a classified message is the first
\* matching group in the order urgent, mention, important, spam, and a text
\* matching no group gets general whatever should_notify is.
C21_NoMatchIsGeneral ==
    (cm_pc = "done" /\ ~cm_result.failed)
        => cm_result.category = FirstMatch(cm_request.text, "general")

\* C21 (amended): the category is the first matching group in the order
\* urgent, mention, important, spam; a text matching no group gets important
\* when should_notify is true and general when it is false.
C21_FirstMatchThenNotify ==
    (cm_pc = "done" /\ ~cm_result.failed)
        => cm_result.category =
              FirstMatch(cm_request.text,
                         IF cm_result.should_notify THEN "important"
                         ELSE "general")

\* A text matching the groups mention, important and spam was given mention.
C21_Witness ==
    /\ cm_pc = "done"
    /\ ~cm_result.failed
    /\ MatchedRanks(cm_request.text) = {2, 3, 4}
    /\ cm_result.category = "mention"

\* The baseline the confidence of a category is measured against.
CategoryBaseline(category) ==
    CASE category = "urgent" -> 95
      [] category = "mention" -> 90
      [] category = "important" -> 85
      [] category = "spam" -> 88
      [] OTHER -> 75

Distance(a, b) == IF a >= b THEN a - b ELSE b - a

ConfidenceNearBaseline(result) ==
    /\ result.confidence >= 60
    /\ result.confidence <= 99
    /\ Distance(result.confidence, CategoryBaseline(result.category)) <= 5

UrgencyVocabulary ==
    {WordUrgent, WordHelp, WordImportant, WordEmergency, WordAsap}
StatedHeuristic(request) ==
    \/ \E w \in UrgencyVocabulary : Includes(ToLowerCase(request.content), w)
    \/ Includes(ToLowerCase(request.userDescription), WordAll)

\* C23: whenever classifyMessageWithAI returns a rule-based result, because
\* no API key is configured or because the classifier call failed, the result
\* is true exactly when the message text contains a word of the urgency
\* vocabulary or the preference text contains "all".
C23_FallbackSameOnBothPaths ==
    (a_pc = "done" /\ a_by \in {"rules_unconfigured", "rules_error"})
        => a_result = StatedHeuristic(a_request)

\* The DM decision of shouldSendDM on a classification result, for a user
\* without quiet hours and the default delivery preferences, at any time.
DefaultDMDecision(result) ==
    \A now \in ClockSamples :
        shouldSendDM([category |-> result.category, priority |-> result.priority],
                     getDefaultDeliveryPreferences, getSlackUser, now)

\* C24: Scenario A.  The message "Production is down! Need immediate help."
\* classified under the default settings is given category urgent, and the DM
\* decision for it under the default delivery preferences is true.
C24_ScenarioA ==
    (/\ cm_pc = "done"
     /\ cm_request.has_text
     /\ cm_request.text = ScenarioAText
     /\ cm_request.user_settings = DefaultClassifierSettings)
        => /\ cm_result.category = "urgent"
           /\ DefaultDMDecision(cm_result)

\* Minutes since midnight of the well-formed time strings.
MinutesOf(t) ==
    CASE t = T2200 -> 22 * 60
      [] t = T0800 -> 8 * 60
      [] t = T0900 -> 9 * 60
      [] t = T1700 -> 17 * 60
      [] t = T1730 -> 17 * 60 + 30

\* C25: with quiet hours enabled and the start or the end time missing, the
\* quiet-hours test of a non-urgent message is the test made with 22:00 in
\* place of a missing start and 08:00 in place of a missing end.
C25_MissingTimesDefault ==
    LET q == p_user.quiet_hours
        start == IF q.start_time = NoTime THEN 22 * 60 ELSE MinutesOf(q.start_time)
        end == IF q.end_time = NoTime THEN 8 * 60 ELSE MinutesOf(q.end_time)
    IN (/\ p_decided
        /\ QuietEnabled(p_user)
        /\ p_result.category # "urgent"
        /\ (q.start_time = NoTime \/ q.end_time = NoTime))
           => p_quiet = (p_now >= start \/ p_now < end)

\* Quiet hours enabled with neither time set, tested at 23:59: quiet.
C25_Witness ==
    /\ p_decided
    /\ QuietEnabled(p_user)
    /\ p_result.category # "urgent"
    /\ p_user.quiet_hours.start_time = NoTime
    /\ p_user.quiet_hours.end_time = NoTime
    /\ p_now = 23 * 60 + 59
    /\ p_quiet

C29_StopsAtFirstSuccess ==
    r_pc = "returned" =>
        LET k == Len(r_outcomes)
        IN /\ k >= 1
           /\ k <= r_maxRetries
           /\ r_calls = k
           /\ r_outcomes[k] \in {"ok", "no_data"}
           /\ \A i \in 1..(k - 1) : r_outcomes[i] \in ErrorKinds
           /\ Len(r_waits) = k - 1
           /\ r_outcomes[k] = "ok" => r_value \in RetryValues
           /\ r_outcomes[k] = "no_data" => r_value = NoValue

\* Success on the third of four attempts: three invocations, two waits.
C29_Witness ==
    /\ r_pc = "returned"
    /\ r_maxRetries = 4
    /\ r_delay = 250
    /\ r_outcomes = <<"transport", "app_failure", "ok">>
    /\ r_calls = 3
    /\ r_waits = <<250, 500>>

\* C27: a cleanup that converges is honoured: when any cleanup output,
\* the last one included, is exactly "y" the result is true, when it is
\* exactly "n" the result is false, and the no-notify default is applied
\* only when no output was canonical.
C27_CleanupAnswerHonoured ==
    a_pc = "done" =>
        /\ \A j \in 2..Len(a_answers) :
              Canonical(a_answers[j]) => a_result = (a_answers[j] = AnswerY)
        /\ a_by = "default" =>
              \A j \in 1..Len(a_answers) : ~Canonical(a_answers[j])

DefaultViewState ==
    [loading |-> FALSE, error |-> NoError, data |-> NullData,
     user |-> NoViewUser]

\* C30: under any sequence of setLoading, setError, setData, setUser, clear
\* and clearAll, no user id has loading = true together with a defined error;
\* setUser changes the user field only; after clear the state of the id is
\* the default (loading false, no error, no user).
C30_ViewStateConsistent ==
    /\ \A id \in ViewUserIds :
          ~(getState(id).loading /\ getState(id).error # NoError)
    /\ v_last.op = "setUser" =>
          /\ getState(v_last.userId).user = v_last.value
          /\ getState(v_last.userId).loading = v_last.before.loading
          /\ getState(v_last.userId).error = v_last.before.error
          /\ getState(v_last.userId).data = v_last.before.data
    /\ v_last.op = "clear" => getState(v_last.userId) = DefaultViewState
    /\ v_last.op = "clearAll" =>
          \A id \in ViewUserIds : getState(id) = DefaultViewState

\* setLoading(id, true) was called on an id whose state held an error and a
\* user: the id is loading, the error is gone and the user is kept.
C30_Witness ==
    /\ v_last.op = "setLoading"
    /\ v_last.loading
    /\ v_last.before.error # NoError
    /\ v_last.before.user # NoViewUser
    /\ getState(v_last.userId).loading
    /\ getState(v_last.userId).error = NoError
    /\ getState(v_last.userId).user = v_last.before.user

====
